---- MODULE Spec2Model ----
(***************************************************************************)
(* Financial Dashboard MVP: the cached historical-data fetcher             *)
(* (get_historical_data under st.cache_data(ttl=300)), the manual refresh  *)
(* button, and the panels that derive metrics from the fetched frames.     *)
(*                                                                         *)
(* Two specifications share the state:                                     *)
(*   Spec        the cached fetcher called with arbitrary (ticker, label)  *)
(*               arguments, the manual refresh and the passing of time;    *)
(*   SpecPanels  one browser session running the dashboard script top to   *)
(*               bottom, panel by panel, on every rerun.                   *)
(*                                                                         *)
(* Numbers.  Closes are naturals (price units).  A computed float is the   *)
(* exact ratio [num, den]; den = 0 stands for the IEEE results of a        *)
(* division by zero that numpy produces without raising: [1,0] = +inf,     *)
(* [-1,0] = -inf, [0,0] = NaN.  Binary rounding of floats is not modelled. *)
(***************************************************************************)
EXTENDS Integers, Sequences, FiniteSets, TLC

VARIABLES
    impl,               \* which file runs: "app" (src/app.py) or "app_old" (src/app_old.py)
    now,                \* wall clock, seconds since the session started
    cache,              \* st.cache_data store of get_historical_data: key -> [at, ret, msg]
    upstream,           \* history: key -> the last provider call for it since the last clear
    last,               \* the most recent operation on the fetcher and what its caller saw
    selected_timeframe, \* the sidebar selectbox
    pc,                 \* position of the running script
    page                \* what the section rendered last put on the page

vars == <<impl, now, cache, upstream, last, selected_timeframe, pc, page>>

----------------------------------------------------------------------------
(* Bounds of the model *)

MaxTicks == 2

MaxBars == 2

(* Program constants *)

TTL == 300

Impls == {"app", "app_old"}

timeframe_options == <<"1M", "3M", "6M", "1Y", "2Y">>

\* Labels a caller can pass to get_historical_data: the five of the selectbox
\* and one that is none of them.
PeriodStrings == {timeframe_options[i] : i \in DOMAIN timeframe_options} \cup {"5Y"}

timeframe_mapping ==
    ("1M" :> "1mo") @@ ("3M" :> "3mo") @@ ("6M" :> "6mo") @@ ("1Y" :> "1y") @@ ("2Y" :> "2y")

\* dict.get(key, default)
DictGet(d, key, default) == IF key \in DOMAIN d THEN d[key] ELSE default

yf_period_strict(period_string) ==
    IF period_string \in DOMAIN timeframe_mapping THEN timeframe_mapping[period_string]
    ELSE "KeyError"

\* yf_period = timeframe_mapping.get(period_string, "3mo")
yf_period(period_string) == DictGet(timeframe_mapping, period_string, "3mo")

\* timeframe_mapping[selected_timeframe] of the development notes: a KeyError
\* for a label that is no key.
notes_period(label) ==
    IF label \in DOMAIN timeframe_mapping THEN timeframe_mapping[label] ELSE "KeyError"

----------------------------------------------------------------------------
(* Data frames.  Column labels are tuples: <<"Close">> in a flat Index,     *)
(* <<"Close", ticker>> in a MultiIndex.  Only the Close values are carried: *)
(* no computation of the program reads another column's values.             *)

Prices == {0, 45, 50}

OHLCV == <<"Close", "High", "Low", "Open", "Volume">>

\* pd.DataFrame()
EmptyFrame == [index |-> "RangeIndex", multi |-> FALSE, columns |-> <<>>, Close |-> <<>>]

\* What yf.download returns: rows indexed by Date, flat or two-level columns.
ProviderFrame(ticker, multi, closes) ==
    [index |-> "Date",
     multi |-> multi,
     columns |-> [i \in DOMAIN OHLCV |-> IF multi THEN <<OHLCV[i], ticker>> ELSE <<OHLCV[i]>>],
     Close |-> closes]

\* data.empty
IsEmpty(data) == Len(data.columns) = 0 \/ Len(data.Close) = 0

\* data.columns = [col[0] for col in data.columns]
Flatten(data) ==
    [data EXCEPT !.multi = FALSE, !.columns = [i \in DOMAIN data.columns |-> <<data.columns[i][1]>>]]

\* data.reset_index(): the Date index becomes the first column.
reset_index(data) ==
    [data EXCEPT !.index = "RangeIndex",
                 !.columns = <<IF data.multi THEN <<"Date", "">> ELSE <<"Date">>>> \o data.columns]

\* 'Close' in data.columns (a MultiIndex contains a first-level key)
HasClose(data) == \E i \in DOMAIN data.columns : data.columns[i][1] = "Close"

\* len(data)
Rows(data) == Len(data.Close)

----------------------------------------------------------------------------
(* The provider.  One answer of yf.download: it raises, it returns          *)
(* something that is no usable frame (the body's next access raises), or    *)
(* it returns a frame of zero or more rows.                                 *)

SeqsUpTo(S, n) == UNION {[1..m -> S] : m \in 0..n}

Answers(series) ==
    {[kind |-> "raises", multi |-> FALSE, closes |-> <<>>],
     [kind |-> "malformed", multi |-> FALSE, closes |-> <<>>]}
    \cup {[kind |-> "frame", multi |-> m, closes |-> s] : m \in BOOLEAN, s \in series}

\* The answers the cache specification draws from: the cache never looks
\* inside a frame, so one empty and one non-empty series tell its cases apart.
ScenarioSeries == {<<>>, <<50, 45>>}

\* The closes of asset A in the documented comparison batch (B is <<50, 45>>).
BatchA == <<100, 110, 121>>

AllSeries == SeqsUpTo(Prices, MaxBars) \cup {BatchA}

AnswerKind(o) ==
    IF o.kind = "frame" THEN (IF Len(o.closes) = 0 THEN "empty" ELSE "rows") ELSE o.kind

----------------------------------------------------------------------------
(* get_historical_data: the body under the decorator.  A result is what the *)
(* caller gets: the returned frame, the st.warning / st.error shown, and    *)
(* whether an exception left the function instead.                          *)

Returned(data, msg, period) == [ret |-> data, msg |-> msg, raised |-> FALSE, period |-> period]

Raised(period) == [ret |-> EmptyFrame, msg |-> "none", raised |-> TRUE, period |-> period]

\* app.py: if isinstance(data.columns, pd.MultiIndex): flatten.  app_old.py
\* has no such step.
flatten_step(data) == IF impl = "app" /\ data.multi THEN Flatten(data) ELSE data

\* The statements inside try: up to the return.
try_body(ticker, period_string, o) ==
    LET period == yf_period(period_string) IN
    IF o.kind \in {"raises", "malformed"}
    THEN Raised(period)
    ELSE LET data == ProviderFrame(ticker, o.multi, o.closes) IN
         IF IsEmpty(data)
         THEN Returned(EmptyFrame, "warning", period)
         ELSE Returned(reset_index(flatten_step(data)), "none", period)

except_nothing(r) == r

\* except Exception as e: st.error(...); return pd.DataFrame()
except_Exception(r) == IF r.raised THEN Returned(EmptyFrame, "error", r.period) ELSE r

get_historical_data(ticker, period_string, o) ==
    except_Exception(try_body(ticker, period_string, o))

provider_calls_retry(ticker, period, o) ==
    IF o.kind = "raises"
    THEN <<[ticker |-> ticker, period |-> period], [ticker |-> ticker, period |-> period]>>
    ELSE <<[ticker |-> ticker, period |-> period]>>

\* The provider calls one run of the body makes: the one statement
\* data = yf.download(ticker, period=yf_period, progress=False), in no loop
\* and with no second attempt in the handler.
provider_calls(ticker, period, o) == <<[ticker |-> ticker, period |-> period]>>

----------------------------------------------------------------------------
(* st.cache_data(ttl=300): results are stored under the call's arguments    *)
(* with the time of the call; an entry answers calls for TTL seconds.  The  *)
(* messages shown inside the function are stored and replayed with it.  A   *)
(* call that raises stores nothing.                                         *)

NoEntries == [k \in {} |-> 0]

None == <<>>

Some(x) == <<x>>

CacheKey(ticker, period_string) == <<ticker, period_string>>

expired_late(e, t) == t > e.at + TTL

\* ttl=300
Expired(e, t) == t >= e.at + TTL

cache_hit_never(c, t, k) == FALSE

CacheHit(c, t, k) == k \in DOMAIN c /\ ~Expired(c[k], t)

Put(c, k, e) == [x \in DOMAIN c \cup {k} |-> IF x = k THEN e ELSE c[x]]

cacheable_rows_only(r) == ~r.raised /\ ~IsEmpty(r.ret)

\* st.cache_data stores whatever the function returns, the empty frame of
\* the warning and error paths included; only a raised exception stores
\* nothing.
Cacheable(r) == ~r.raised

clear_one_entry(c) ==
    IF DOMAIN c = {} THEN c ELSE [x \in DOMAIN c \ {CHOOSE k \in DOMAIN c : TRUE} |-> c[x]]

\* st.cache_data.clear()
cache_clear(c) == NoEntries

\* One call of the decorated function at time t with store c, the provider
\* answering o if it is asked.
cached_call(c, t, ticker, period_string, o) ==
    LET k == CacheKey(ticker, period_string) IN
    IF CacheHit(c, t, k)
    THEN [cache |-> c, ret |-> c[k].ret, msg |-> c[k].msg, raised |-> FALSE,
          provider |-> "nocall", period |-> "", calls |-> <<>>, nested |-> FALSE]
    ELSE LET r == get_historical_data(ticker, period_string, o) IN
         [cache |-> IF Cacheable(r) THEN Put(c, k, [at |-> t, ret |-> r.ret, msg |-> r.msg])
                    ELSE c,
          ret |-> r.ret, msg |-> r.msg, raised |-> r.raised,
          provider |-> AnswerKind(o), period |-> r.period,
          calls |-> provider_calls(ticker, r.period, o),
          nested |-> o.kind = "frame" /\ o.multi]

----------------------------------------------------------------------------
(* Spec: the fetcher called directly *)

\* The argument pairs the callers of Spec pass: two tickers under one label,
\* and one of them under a second label.
CallArgs == {<<"^GSPC", "3M">>, <<"GLD", "3M">>, <<"^GSPC", "1Y">>}

\* The argument pairs the callers of SpecLabels pass: one ticker under every
\* label.
LabelArgs == {"^GSPC"} \X PeriodStrings

\* The provider is asked only on a miss.
Asked(k, answers) ==
    IF CacheHit(cache, now, k) THEN {CHOOSE o \in answers : TRUE} ELSE answers

\* A call get_historical_data(ticker, period_string) from anywhere.
FetchCall(ticker, period_string) ==
    LET k == CacheKey(ticker, period_string) IN
    /\ \E o \in Asked(k, Answers(ScenarioSeries)) :
         LET r == cached_call(cache, now, ticker, period_string, o) IN
         /\ cache' = r.cache
         /\ upstream' = IF r.provider = "nocall" THEN upstream
                        ELSE Put(upstream, k, [at |-> now, ret |-> r.ret, msg |-> r.msg])
         /\ last' = [op |-> "fetch", key |-> k, at |-> now, provider |-> r.provider,
                     period |-> r.period, ret |-> r.ret, msg |-> r.msg, raised |-> r.raised,
                     calls |-> r.calls, nested |-> r.nested,
                     had |-> IF k \in DOMAIN cache THEN Some(cache[k].at) ELSE None,
                     prev |-> IF k \in DOMAIN upstream THEN Some(upstream[k].at) ELSE None,
                     cleared |-> IF last.op = "clear" THEN last.live ELSE NoEntries]
    /\ UNCHANGED <<impl, now, selected_timeframe, pc, page>>

\* The sidebar button: st.cache_data.clear().  live remembers the entries
\* that were still answering calls when the button was pressed.
ManualRefresh ==
    /\ cache' = cache_clear(cache)
    /\ upstream' = NoEntries
    /\ last' = [op |-> "clear", at |-> now,
                live |-> [k \in {x \in DOMAIN cache : ~Expired(cache[x], now)} |-> cache[k].at]]
    /\ UNCHANGED <<impl, now, selected_timeframe, pc, page>>

\* Time passes, half a TTL at a time.
Tick ==
    /\ now + (TTL \div 2) <= MaxTicks * (TTL \div 2)
    /\ now' = now + (TTL \div 2)
    /\ UNCHANGED <<impl, cache, upstream, last, selected_timeframe, pc, page>>

Init ==
    /\ impl \in Impls
    /\ now = 0
    /\ cache = NoEntries
    /\ upstream = NoEntries
    /\ last = [op |-> "none"]
    /\ selected_timeframe = timeframe_options[2]
    /\ pc = "idle"
    /\ page = [panel |-> "none"]

Next ==
    \/ \E k \in CallArgs : FetchCall(k[1], k[2])
    \/ ManualRefresh
    \/ Tick

Spec == Init /\ [][Next]_vars

\* A caller that keeps to one label until the next manual refresh.
NextLabels ==
    \/ \E k \in LabelArgs : DOMAIN cache \subseteq {k} /\ FetchCall(k[1], k[2])
    \/ ManualRefresh

SpecLabels == Init /\ [][NextLabels]_vars

----------------------------------------------------------------------------
(* Float arithmetic on closes *)

RECURSIVE GCD(_, _)
GCD(a, b) == IF b = 0 THEN a ELSE GCD(b, a % b)

Abs(a) == IF a < 0 THEN 0 - a ELSE a

Sign(a) == IF a > 0 THEN 1 ELSE IF a < 0 THEN 0 - 1 ELSE 0

\* The ratio a / b in lowest terms, b >= 0; with b = 0 the result numpy gives
\* for a float division by zero: +inf, -inf or NaN, and no exception.
Ratio(a, b) ==
    IF b = 0 THEN [num |-> Sign(a), den |-> 0]
    ELSE LET g == GCD(Abs(a), b) IN [num |-> a \div g, den |-> b \div g]

Zero == Ratio(0, 1)

Hundred == Ratio(100, 1)

IsFinite(x) == x.den # 0

\* x * 100
Times100(x) == IF IsFinite(x) THEN Ratio(x.num * 100, x.den) ELSE x

\* data['Close']
Close(data) == data.Close

normalized_by_last(data) ==
    [i \in DOMAIN Close(data) |-> Times100(Ratio(Close(data)[i], Close(data)[Rows(data)]))]

\* normalized_prices = (data['Close'] / data['Close'].iloc[0]) * 100
normalized_prices(data) ==
    [i \in DOMAIN Close(data) |-> Times100(Ratio(Close(data)[i], Close(data)[1]))]

\* performance = ((end_price - start_price) / start_price) * 100
performance(data) ==
    LET start_price == Close(data)[1]
        end_price == Close(data)[Rows(data)]
    IN Times100(Ratio(end_price - start_price, start_price))

\* round(x * 10) of a finite x >= 0 given as num / den, ties to the even
\* neighbour as the float formatter rounds an exactly representable tie.
Tenths(num, den) ==
    LET q == (num * 10) \div den
        r == (num * 10) % den
    IN IF 2 * r > den \/ (2 * r = den /\ q % 2 = 1) THEN q + 1 ELSE q

\* f"{performance:+.1f}%": a sign always, one decimal, then the percent sign.
format_signed(x) ==
    IF ~IsFinite(x) THEN (IF x.num = 0 THEN "+nan%" ELSE IF x.num > 0 THEN "+inf%" ELSE "-inf%")
    ELSE LET t == Tenths(Abs(x.num), x.den) IN
         (IF x.num < 0 THEN "-" ELSE "+") \o ToString(t \div 10) \o "." \o ToString(t % 10) \o "%"

\* f"{performance:+.1f}%" raises TypeError when performance is a Series: with
\* two-level columns data['Close'] is a frame and its .iloc[0] a Series.
format_raises(data) == data.multi

prev_price_else_zero(data) ==
    IF Rows(data) > 1 THEN Close(data)[Rows(data) - 1] ELSE 0

\* prev_price = data['Close'].iloc[-2] if len(data) > 1 else current_price
prev_price(data) ==
    IF Rows(data) > 1 THEN Close(data)[Rows(data) - 1] ELSE Close(data)[Rows(data)]

change_pct_unguarded(change, prev) == Times100(Ratio(change, prev))

\* change_pct = (change / prev_price) * 100 if prev_price > 0 else 0
change_pct(change, prev) == IF prev > 0 THEN Times100(Ratio(change, prev)) ELSE Zero

----------------------------------------------------------------------------
(* The sections of the script.  Each list is the head of the one in the     *)
(* source: the loops treat every element alike.                             *)

Asset(ticker, name) == [ticker |-> ticker, name |-> name]

\* overview_assets: the first two of five.
overview_assets ==
    <<Asset("^GSPC", "S&P 500"),
      Asset(IF impl = "app" THEN "DX-Y.NYB" ELSE "DXY", "US Dollar Index")>>

\* us_indices: the first of four.
us_indices == <<Asset("^GSPC", "S&P 500")>>

\* currency_pairs: the first of six.
currency_pairs == <<Asset("EURUSD=X", "EUR/USD")>>

\* for ticker, name in assets.items(): data = get_historical_data(ticker,
\* selected_timeframe), one provider answer per element.
RECURSIVE fetch_each(_, _, _)
fetch_each(c, assets, os) ==
    IF assets = <<>> THEN [cache |-> c, datas |-> <<>>]
    ELSE LET r == cached_call(c, now, Head(assets).ticker, selected_timeframe, Head(os))
             rest == fetch_each(r.cache, Tail(assets), Tail(os))
         IN [cache |-> rest.cache,
             datas |-> <<[name |-> Head(assets).name, data |-> r.ret]>> \o rest.datas]

has_data(e) == ~IsEmpty(e.data)

in_chart(e) == HasClose(e.data) /\ Rows(e.data) > 0

in_summary_like_chart(e) == HasClose(e.data) /\ Rows(e.data) > 0

\* if 'Close' in data.columns and len(data) > 1
in_summary(e) == HasClose(e.data) /\ Rows(e.data) > 1
\* The Broad Asset Class Performance section, after its fetch loop: the
\* assets with data, the chart's traces, the summary table.  The chart is
\* plotted before the summary loop runs.
overview_section(datas) ==
    LET asset_data == SelectSeq(datas, has_data)
        charted == SelectSeq(asset_data, in_chart)
        summed == SelectSeq(asset_data, in_summary)
        crash == \E i \in DOMAIN summed : format_raises(summed[i].data)
    IN [panel |-> "overview",
        fetched |-> datas,
        asset_data |-> asset_data,
        error |-> asset_data = <<>>,
        chart |-> [i \in DOMAIN charted |->
                     [name |-> charted[i].name,
                      data |-> charted[i].data,
                      y |-> normalized_prices(charted[i].data)]],
        perf_data |-> IF crash THEN <<>>
                      ELSE [i \in DOMAIN summed |->
                              [Asset |-> summed[i].name,
                               data |-> summed[i].data,
                               performance |-> performance(summed[i].data),
                               Performance |-> format_signed(performance(summed[i].data))]],
        exception |-> crash]

\* One tab of US Major Indices: the current price info, or the warning.
index_tab(e) ==
    IF has_data(e)
    THEN LET current_price == Close(e.data)[Rows(e.data)]
             prev == prev_price(e.data)
             change == current_price - prev
         IN [name |-> e.name, shown |-> TRUE, data |-> e.data,
             current_price |-> current_price, prev_price |-> prev,
             change |-> change, change_pct |-> change_pct(change, prev)]
    ELSE [name |-> e.name, shown |-> FALSE, data |-> e.data]

\* One cell of Major USD Currency Pairs: the current rate info, with a delta
\* only when there are two bars, or the warning.
currency_cell(e) ==
    IF has_data(e)
    THEN IF Rows(e.data) > 1
         THEN LET current_rate == Close(e.data)[Rows(e.data)]
                  prev_rate == Close(e.data)[Rows(e.data) - 1]
                  change == current_rate - prev_rate
              IN [name |-> e.name, shown |-> TRUE, data |-> e.data,
                  value |-> current_rate, prev_rate |-> prev_rate,
                  change |-> change, delta |-> Some(change_pct(change, prev_rate))]
         ELSE [name |-> e.name, shown |-> TRUE, data |-> e.data,
               value |-> Close(e.data)[Rows(e.data)], delta |-> None]
    ELSE [name |-> e.name, shown |-> FALSE, data |-> e.data]

\* One provider answer per element of a loop; an element the cache answers
\* asks nothing.
RECURSIVE AskedEach(_, _)
AskedEach(assets, answers) ==
    IF assets = <<>> THEN {<<>>}
    ELSE {<<o>> \o rest :
            o \in Asked(CacheKey(Head(assets).ticker, selected_timeframe), answers),
            rest \in AskedEach(Tail(assets), answers)}

----------------------------------------------------------------------------
(* SpecPanels: the script, section by section *)

\* A widget interaction reruns the script from the top, wherever the running
\* script is; with the Manual Refresh button the run starts with
\* st.cache_data.clear().
Rerun(clicked) ==
    /\ cache' = IF clicked THEN cache_clear(cache) ELSE cache
    /\ pc' = "connectivity"
    /\ page' = [panel |-> "none"]
    /\ UNCHANGED <<impl, now, upstream, last, selected_timeframe>>

\* Data Connectivity Test
ConnectivityTest ==
    /\ pc = "connectivity"
    /\ \E o \in Asked(CacheKey("^GSPC", selected_timeframe), Answers(AllSeries)) :
         LET r == cached_call(cache, now, "^GSPC", selected_timeframe, o) IN
         /\ cache' = r.cache
         /\ page' = [panel |-> "connectivity", data |-> r.ret, connected |-> ~IsEmpty(r.ret)]
    /\ pc' = "overview"
    /\ UNCHANGED <<impl, now, upstream, last, selected_timeframe>>

\* Broad Asset Class Performance.  An exception in the summary loop ends the
\* run; app_old.py has only placeholders after this section.
OverviewPanel ==
    /\ pc = "overview"
    /\ \E os \in AskedEach(overview_assets, Answers(AllSeries)) :
         LET f == fetch_each(cache, overview_assets, os) IN
         /\ cache' = f.cache
         /\ page' = overview_section(f.datas)
         /\ pc' = IF page'.exception THEN "stopped"
                  ELSE IF impl = "app" THEN "indices" ELSE "notes"
    /\ UNCHANGED <<impl, now, upstream, last, selected_timeframe>>

\* US Major Indices (app.py)
IndexPanel ==
    /\ pc = "indices"
    /\ \E os \in AskedEach(us_indices, Answers(AllSeries)) :
         LET f == fetch_each(cache, us_indices, os) IN
         /\ cache' = f.cache
         /\ page' = [panel |-> "indices",
                     tabs |-> [i \in DOMAIN f.datas |-> index_tab(f.datas[i])]]
    /\ pc' = "currency"
    /\ UNCHANGED <<impl, now, upstream, last, selected_timeframe>>

\* Major USD Currency Pairs (app.py)
CurrencyPanel ==
    /\ pc = "currency"
    /\ \E os \in AskedEach(currency_pairs, Answers(AllSeries)) :
         LET f == fetch_each(cache, currency_pairs, os) IN
         /\ cache' = f.cache
         /\ page' = [panel |-> "currency",
                     cells |-> [i \in DOMAIN f.datas |-> currency_cell(f.datas[i])]]
    /\ pc' = "notes"
    /\ UNCHANGED <<impl, now, upstream, last, selected_timeframe>>

\* Development notes, when the sidebar checkbox is ticked.
DevNotes(checked) ==
    /\ pc = "notes"
    /\ page' = [panel |-> "notes", shown |-> checked,
                period |-> IF checked THEN notes_period(selected_timeframe) ELSE ""]
    /\ pc' = "done"
    /\ UNCHANGED <<impl, now, cache, upstream, last, selected_timeframe>>

NextPanels ==
    \/ \E clicked \in BOOLEAN : Rerun(clicked)
    \/ ConnectivityTest
    \/ OverviewPanel
    \/ IndexPanel
    \/ CurrencyPanel
    \/ \E checked \in BOOLEAN : DevNotes(checked)

SpecPanels == Init /\ [][NextPanels]_vars

----------------------------------------------------------------------------
(* Claims about the cached fetcher *)

Called == last.op = "fetch" /\ last.provider # "nocall"

Hit == last.op = "fetch" /\ last.provider = "nocall"

\* C1: with no manual refresh in between, a key causes at most one provider
\* call per TTL window: a fetch that calls the provider comes at least TTL
\* after the previous call for its key, and every other fetch returns what
\* that call returned, inside its window, without calling the provider.
C1_OneCallPerWindow ==
    /\ Called /\ last.prev # None => last.at - last.prev[1] >= TTL
    /\ Hit => /\ last.key \in DOMAIN upstream
              /\ last.ret = upstream[last.key].ret
              /\ last.msg = upstream[last.key].msg
              /\ last.at - upstream[last.key].at < TTL

\* A fetch answered from the cache later in the window, with two keys called.
C1_Witness ==
    /\ Hit
    /\ last.at > upstream[last.key].at
    /\ Cardinality(DOMAIN upstream) >= 2

\* C2: fetch never lets a failure out: when the provider raises, returns
\* no rows or returns what the body cannot process, the caller gets the empty
\* frame and a warning or error message, and no exception.
C2_FailsSoft ==
    last.op = "fetch" =>
        /\ ~last.raised
        /\ last.provider \in {"raises", "malformed", "empty"} =>
               /\ last.ret = EmptyFrame
               /\ last.msg \in {"warning", "error"}

\* The provider returned something the body could not process.
C2_Witness ==
    /\ Called
    /\ last.provider = "malformed"
    /\ last.ret = EmptyFrame
    /\ last.msg = "error"

\* C3: a manual refresh leaves no entry at all, and a fetch for a key with no
\* provider call since the refresh calls the provider, also for an entry
\* the refresh removed inside its TTL window.
C3_RefreshClearsAll ==
    /\ last.op = "clear" => DOMAIN cache = {}
    /\ last.op = "fetch" /\ last.prev = None => last.provider # "nocall"
    /\ last.op = "fetch" /\ last.key \in DOMAIN last.cleared => last.provider # "nocall"

\* The refresh removed two live entries and the next fetch asks for one of
\* them inside the old entry's window.
C3_Witness ==
    /\ Called
    /\ last.key \in DOMAIN last.cleared
    /\ Cardinality(DOMAIN last.cleared) >= 2
    /\ last.at - last.cleared[last.key] < TTL

\* C4: an entry expires TTL seconds after its insertion: a fetch at or after
\* that calls the provider, a provider result with rows replaces the entry
\* whole with the time of the call, and a fetch answered from the cache sees
\* an entry younger than TTL.
C4_ExpiryAtTTL ==
    /\ last.op = "fetch" /\ last.prev # None /\ last.at - last.prev[1] >= TTL
           => last.provider # "nocall"
    /\ Called /\ last.provider = "rows"
           => /\ last.key \in DOMAIN cache
              /\ cache[last.key] = [at |-> last.at, ret |-> last.ret, msg |-> last.msg]
    /\ Hit => /\ last.key \in DOMAIN cache
              /\ last.at < cache[last.key].at + TTL

\* A fetch exactly TTL after the previous call for its key, answered with rows.
C4_Witness ==
    /\ Called
    /\ last.provider = "rows"
    /\ last.prev # None
    /\ last.at - last.prev[1] = TTL

\* C5: the resolver maps 1M, 3M, 6M, 1Y, 2Y to 1mo, 3mo, 6mo, 1y, 2y and any
\* other label to 3mo; the development notes show the same code for every
\* label of the selectbox.
C5_ResolverTotal ==
    /\ Called =>
         LET label == last.key[2] IN
         /\ label = "1M" => last.period = "1mo"
         /\ label = "3M" => last.period = "3mo"
         /\ label = "6M" => last.period = "6mo"
         /\ label = "1Y" => last.period = "1y"
         /\ label = "2Y" => last.period = "2y"
         /\ label \notin {"1M", "3M", "6M", "1Y", "2Y"} => last.period = "3mo"
    /\ \A i \in DOMAIN timeframe_options :
         notes_period(timeframe_options[i]) = yf_period(timeframe_options[i])

\* The provider was asked for a label that is none of the five.
C5_Witness ==
    /\ Called
    /\ last.key[2] = "5Y"
    /\ last.period = "3mo"

----------------------------------------------------------------------------
(* Claims about the derived metrics *)

\* x is the float a / b, b > 0
IsRatio(x, a, b) == IsFinite(x) /\ x.num * b = a * x.den

ChartNames == {page.chart[i].name : i \in DOMAIN page.chart}

SummaryNames == {page.perf_data[i].Asset : i \in DOMAIN page.perf_data}

\* C6 as claimed: every asset with at least one bar is in the chart and in
\* the summary table, an asset with no bar is in neither.
C6_AtLeastOneBarInBoth ==
    page.panel = "overview" /\ impl = "app" =>
        \A i \in DOMAIN page.fetched :
            LET e == page.fetched[i] IN
            /\ Len(e.data.Close) >= 1 => e.name \in ChartNames /\ e.name \in SummaryNames
            /\ Len(e.data.Close) = 0 => e.name \notin ChartNames /\ e.name \notin SummaryNames

\* C6 amended: an asset is in the chart exactly when it has at least one bar
\* and in the summary table exactly when it has at least two; an asset with
\* no bar is in neither and the others are still produced.
C6_ChartOneBarSummaryTwo ==
    page.panel = "overview" =>
        \A i \in DOMAIN page.fetched :
            LET e == page.fetched[i] IN
            /\ e.name \in ChartNames <=> Len(e.data.Close) >= 1
            /\ impl = "app" => (e.name \in SummaryNames <=> Len(e.data.Close) >= 2)

\* One asset came back empty and the other with a single bar: the second is
\* charted and the table is empty.
C6_Witness ==
    /\ page.panel = "overview"
    /\ impl = "app"
    /\ \E i, j \in DOMAIN page.fetched :
         /\ Len(page.fetched[i].data.Close) = 0
         /\ Len(page.fetched[j].data.Close) = 1
         /\ ChartNames = {page.fetched[j].name}
    /\ page.perf_data = <<>>

\* C7: a zero divisor gives a result of zero in the latest-snapshot
\* percentage change, in the normalized series and in the performance
\* figure.
C7_ZeroDivisorGivesZero ==
    /\ page.panel = "overview" =>
         /\ \A i \in DOMAIN page.chart :
              page.chart[i].data.Close[1] = 0 =>
                  \A j \in DOMAIN page.chart[i].y : page.chart[i].y[j] = Zero
         /\ \A i \in DOMAIN page.perf_data :
              page.perf_data[i].data.Close[1] = 0 => page.perf_data[i].performance = Zero
    /\ page.panel = "indices" =>
         \A i \in DOMAIN page.tabs :
             page.tabs[i].shown /\ page.tabs[i].prev_price = 0 => page.tabs[i].change_pct = Zero
    /\ page.panel = "currency" =>
         \A i \in DOMAIN page.cells :
             /\ page.cells[i].shown
             /\ Len(page.cells[i].data.Close) > 1
             /\ page.cells[i].prev_rate = 0
             => page.cells[i].delta = Some(Zero)

\* C8 as claimed: with exactly one bar every panel reports a change of zero
\* and a percentage change of zero.
C8_OneBarZeroInEveryPanel ==
    /\ page.panel = "indices" =>
         \A i \in DOMAIN page.tabs :
             page.tabs[i].shown /\ Len(page.tabs[i].data.Close) = 1 =>
                 /\ page.tabs[i].change = 0
                 /\ page.tabs[i].change_pct = Zero
    /\ page.panel = "currency" =>
         \A i \in DOMAIN page.cells :
             page.cells[i].shown /\ Len(page.cells[i].data.Close) = 1 =>
                 page.cells[i].delta = Some(Zero)

\* C8 amended: with exactly one bar an index tab takes the latest close as
\* the previous close and reports a change of zero and a percentage change of
\* zero; a currency cell reports the latest rate alone, with no delta.
C8_OneBarSnapshot ==
    /\ page.panel = "indices" =>
         \A i \in DOMAIN page.tabs :
             page.tabs[i].shown /\ Len(page.tabs[i].data.Close) = 1 =>
                 /\ page.tabs[i].current_price = page.tabs[i].data.Close[1]
                 /\ page.tabs[i].prev_price = page.tabs[i].current_price
                 /\ page.tabs[i].change = 0
                 /\ page.tabs[i].change_pct = Zero
    /\ page.panel = "currency" =>
         \A i \in DOMAIN page.cells :
             page.cells[i].shown /\ Len(page.cells[i].data.Close) = 1 =>
                 /\ page.cells[i].value = page.cells[i].data.Close[1]
                 /\ page.cells[i].delta = None

\* An index tab over a single bar with a positive close.
C8_Witness ==
    /\ page.panel = "indices"
    /\ \E i \in DOMAIN page.tabs :
         /\ page.tabs[i].shown
         /\ page.tabs[i].data.Close = <<50>>
         /\ page.tabs[i].change = 0
         /\ page.tabs[i].change_pct = Zero

C10_TwoBarSnapshot ==
    /\ page.panel = "indices" =>
         \A i \in DOMAIN page.tabs :
             LET t == page.tabs[i]
                 n == Len(t.data.Close)
             IN t.shown /\ n >= 2 =>
                  /\ t.current_price = t.data.Close[n]
                  /\ t.prev_price = t.data.Close[n - 1]
                  /\ t.change = t.data.Close[n] - t.data.Close[n - 1]
                  /\ t.prev_price > 0 => IsRatio(t.change_pct, t.change * 100, t.prev_price)
                  /\ t.prev_price = 0 => t.change_pct = Zero
    /\ page.panel = "currency" =>
         \A i \in DOMAIN page.cells :
             LET t == page.cells[i]
                 n == Len(t.data.Close)
             IN t.shown /\ n >= 2 =>
                  /\ t.value = t.data.Close[n]
                  /\ t.change = t.data.Close[n] - t.data.Close[n - 1]
                  /\ t.delta # None
                  /\ t.data.Close[n - 1] > 0 =>
                         IsRatio(t.delta[1], t.change * 100, t.data.Close[n - 1])
                  /\ t.data.Close[n - 1] = 0 => t.delta[1] = Zero

\* An index tab over closes [50, 45]: change -5, -10 per cent.
C10_Witness ==
    /\ page.panel = "indices"
    /\ \E i \in DOMAIN page.tabs :
         /\ page.tabs[i].shown
         /\ page.tabs[i].data.Close = <<50, 45>>
         /\ page.tabs[i].change = 0 - 5
         /\ page.tabs[i].change_pct = Ratio(0 - 10, 1)

----------------------------------------------------------------------------
(* Claims about the summary, the provider calls and the returned columns *)

\* C11: every asset of the comparison with two or more bars and a positive
\* first close has a row in the summary whose performance is
\* (last close - first close) / first close x 100 and whose text is that
\* number with an explicit sign and one decimal; the closes <<100, 110, 121>>
\* are shown as +21.0% and the closes <<50, 45>> as -10.0%.
C11_SummaryPerformance ==
    page.panel = "overview" =>
        \A i \in DOMAIN page.asset_data :
            LET d == page.asset_data[i].data
                first == d.Close[1]
                final == d.Close[Len(d.Close)]
            IN Len(d.Close) >= 2 /\ first > 0 =>
                 \E j \in DOMAIN page.perf_data :
                    LET row == page.perf_data[j]
                        p == row.performance
                        t == (Abs(p.num) * 20 + p.den) \div (2 * p.den)
                    IN /\ row.Asset = page.asset_data[i].name
                       /\ p.den > 0
                       /\ p.num * first = (final - first) * 100 * p.den
                       /\ 2 * Abs(Abs(p.num) * 10 - t * p.den) <= p.den
                       /\ row.Performance =
                              (IF final < first THEN "-" ELSE "+")
                              \o ToString(t \div 10) \o "." \o ToString(t % 10) \o "%"
                       /\ d.Close = BatchA => row.Performance = "+21.0%"
                       /\ d.Close = <<50, 45>> => row.Performance = "-10.0%"

\* C11 in src/app.py alone, where the fetcher flattens two-level columns
\* before the summary reads them.
C11_SummaryPerformanceApp == impl = "app" => C11_SummaryPerformance

\* The documented batch, summarised.
C11_BatchSummarised ==
    /\ page.panel = "overview"
    /\ Len(page.perf_data) = 2
    /\ page.perf_data[1].data.Close = BatchA /\ page.perf_data[1].Performance = "+21.0%"
    /\ page.perf_data[2].data.Close = <<50, 45>> /\ page.perf_data[2].Performance = "-10.0%"

\* C12: a fetch that finds no entry for its key, or an entry TTL old or
\* older, makes exactly one provider call, for its ticker and the period code
\* its label resolves to, whether the provider raises, returns what cannot be
\* processed, returns no rows or returns rows.
C12_OneProviderCall ==
    last.op = "fetch" /\ (last.had = None \/ last.at >= last.had[1] + TTL) =>
        /\ last.provider \in {"raises", "malformed", "empty", "rows"}
        /\ Len(last.calls) = 1
        /\ last.calls[1].ticker = last.key[1]
        /\ last.calls[1].period = timeframe_mapping[last.key[2]]

\* An expired entry, and the provider raising on the one call.
C12_Witness ==
    /\ last.op = "fetch"
    /\ last.had # None
    /\ last.at >= last.had[1] + TTL
    /\ last.provider = "raises"
    /\ Len(last.calls) = 1

\* C13: when the provider response has two-level columns, a non-empty frame
\* returned by the fetch has one flat name per column, the first level of the
\* provider's name, and the date as a column of its own: Date, Open, High,
\* Low, Close and Volume can be read by flat name.  In both files.
C13_FlatColumns ==
    last.op = "fetch" /\ last.nested /\ ~IsEmpty(last.ret) =>
        /\ ~last.ret.multi
        /\ last.ret.index = "RangeIndex"
        /\ \A i \in DOMAIN last.ret.columns : Len(last.ret.columns[i]) = 1
        /\ {last.ret.columns[i][1] : i \in DOMAIN last.ret.columns}
               = {"Date", "Open", "High", "Low", "Close", "Volume"}
        /\ Len(last.ret.columns) = 6

\* C13 in src/app.py alone.
C13_FlatColumnsApp == impl = "app" => C13_FlatColumns

\* src/app.py returning a flattened frame for a two-level response.
C13_FlattenedInApp ==
    /\ impl = "app"
    /\ last.op = "fetch" /\ last.nested /\ ~IsEmpty(last.ret)
    /\ last.ret.columns[1] = <<"Date">>

\* C14: a fetch whose provider call raised, returned what cannot be
\* processed or returned no rows stores the empty frame under its key with
\* the time of the call; until TTL has passed or a manual refresh happens the
\* entry stays, and every fetch for the key returns the empty frame and its
\* message without calling the provider, whatever the provider would answer.
C14_FailuresCached ==
    /\ Called /\ last.provider \in {"raises", "malformed", "empty"} =>
           /\ last.key \in DOMAIN cache
           /\ cache[last.key] = [at |-> last.at, ret |-> EmptyFrame, msg |-> last.msg]
    /\ \A k \in DOMAIN upstream :
           upstream[k].ret = EmptyFrame /\ now < upstream[k].at + TTL =>
               /\ k \in DOMAIN cache
               /\ cache[k] = upstream[k]
    /\ last.op = "fetch" /\ last.had # None /\ last.at < last.had[1] + TTL =>
           /\ last.provider = "nocall"
           /\ last.calls = <<>>
           /\ last.ret = cache[last.key].ret
           /\ last.msg = cache[last.key].msg

\* A failed call's empty frame and error message returned from the cache at
\* a later time.
C14_Witness ==
    /\ Hit
    /\ last.ret = EmptyFrame
    /\ last.msg = "error"
    /\ last.at > cache[last.key].at
    /\ last.at < cache[last.key].at + TTL

====
